---- MODULE Spec2Model ----
(***************************************************************************)
(* analink: an ink-like story source is parsed line by line, merged,       *)
(* grouped into header / knots / stitches, turned into a directed graph    *)
(* and walked by the StoryEngine.                                          *)
(*                                                                         *)
(* A source line is represented by the features the line parser extracts   *)
(* from its text: the kind of line, the number of leading markers, the     *)
(* sticky marker, the inline {condition}, the name after "->", "==" or     *)
(* "=", an inline "-> target" inside the text, and whether the text of a   *)
(* choice or gather itself begins with "->".                               *)
(*                                                                         *)
(* The two NodeType enumerations of the repository (core.models and        *)
(* parser.node) carry the same member names; the model identifies a        *)
(* member by its name.                                                     *)
(***************************************************************************)
EXTENDS Integers, Sequences, FiniteSets, TLC

\* ------------------------------------------------------------------------
\* Bounds of the model
\* ------------------------------------------------------------------------
MaxLines == 3       \* lines of a source the engine is built from
MaxCalls == 2       \* calls of start_story / make_choice / reset_story
MaxIter == 5        \* iterations of the advance loop within one call
MaxGraphLines == 4  \* lines of a source the graph builder walks
MaxLevel == 2       \* leading markers of a choice or gather

\* ------------------------------------------------------------------------
\* Program constants
\* ------------------------------------------------------------------------
END_ID == -1
BEGIN_ID == -2
AUTO_END_ID == -3
FakeId == 9999

NoName == ""
HEADER == "HEADER"

\* KEY_KNOT_NAME = {"END": -1, "BEGIN": -2, "AUTO_END": -3}
KEY_KNOT_NAME == [n \in {"END", "BEGIN", "AUTO_END"} |->
                    IF n = "END" THEN END_ID
                    ELSE IF n = "BEGIN" THEN BEGIN_ID ELSE AUTO_END_ID]

Sentinels == {END_ID, BEGIN_ID, AUTO_END_ID}

\* ------------------------------------------------------------------------
\* Small helpers on sequences and sets
\* ------------------------------------------------------------------------
Last(s) == s[Len(s)]

Range(s) == {s[i] : i \in 1..Len(s)}

RECURSIVE SetToSeq(_)
SetToSeq(S) ==
    IF S = {} THEN <<>>
    ELSE LET m == CHOOSE x \in S : \A y \in S : x <= y
         IN <<m>> \o SetToSeq(S \ {m})

Min(S) == CHOOSE x \in S : \A y \in S : x <= y

\* the concatenation of the sequences of ss
RECURSIVE Flatten(_)
Flatten(ss) == IF ss = <<>> THEN <<>> ELSE Head(ss) \o Flatten(Tail(ss))

\* ------------------------------------------------------------------------
\* Conditions (core/condition.py, the forms the line parser can produce)
\* ------------------------------------------------------------------------
NoCond == [t |-> "none", ref |-> NoName, v |-> 0]

\* parse_condition_string: "not NAME" -> SEEN_COUNT_EQ(NAME, 0);
\* "NAME > N" -> SEEN_COUNT_GT; "NAME < N" -> SEEN_COUNT_LT;
\* bare "NAME" -> SEEN_COUNT_GT(NAME, 0)
CondNot(name) == [t |-> "seen_count_eq", ref |-> name, v |-> 0]
CondSeen(name) == [t |-> "seen_count_gt", ref |-> name, v |-> 0]
CondGt(name, n) == [t |-> "seen_count_gt", ref |-> name, v |-> n]
CondLt(name, n) == [t |-> "seen_count_lt", ref |-> name, v |-> n]

\* ------------------------------------------------------------------------
\* Source lines
\* ------------------------------------------------------------------------
\*   br: the square brackets in the text of a choice:
\*     "none"   no brackets            "only"   "[I]"
\*     "suffix" "[I]A"                 "hidden" "[]A"
\*     "tag"    "[I] #t"
Line(k, c, st, cd, nm, dv, fb) ==
    [k |-> k, c |-> c, st |-> st, cd |-> cd, nm |-> nm, dv |-> dv, fb |-> fb,
     br |-> "none"]

BaseLine(dv) == Line("BASE", 0, FALSE, NoCond, NoName, dv, FALSE)
ChoiceLine(c, st, cd, dv, fb) == Line("CHOICE", c, st, cd, NoName, dv, fb)
BracketChoiceLine(c, br) ==
    [ChoiceLine(c, FALSE, NoCond, NoName, FALSE) EXCEPT !.br = br]
GatherLine(c, dv) == Line("GATHER", c, FALSE, NoCond, NoName, dv, FALSE)
DivertLine(nm) == Line("DIVERT", 0, FALSE, NoCond, nm, NoName, FALSE)
KnotLine(nm) == Line("KNOT", 0, FALSE, NoCond, nm, NoName, FALSE)
StitchLine(nm) == Line("STITCHES", 0, FALSE, NoCond, nm, NoName, FALSE)

\* ------------------------------------------------------------------------
\* Node (core/models.py)
\*   src: the source lines whose text makes up the node's content
\*   arrow: the content begins with "->"; dv: the content holds "-> dv";
\*   clash: the content holds a second "->"
\*   content: "none" (None), "empty" (""), "blank" (white space only) or
\*   "text"; choice_text likewise; same: content == choice_text
\* ------------------------------------------------------------------------
Node(id, type, level, name, sticky, cond, arrow, dv, src) ==
    [id |-> id, type |-> type, level |-> level, name |-> name,
     is_sticky |-> sticky, is_fallback |-> FALSE, condition |-> cond,
     arrow |-> arrow, dv |-> dv, clash |-> FALSE, src |-> src,
     br |-> "none", content |-> IF src = <<>> THEN "none" ELSE "text",
     choice_text |-> "none", same |-> FALSE,
     knot_name |-> HEADER, stitch_name |-> HEADER]

end_node == Node(END_ID, "END", -1, "END", FALSE, NoCond, FALSE, NoName, <<>>)
begin_node == Node(BEGIN_ID, "BEGIN", -1, "BEGIN", FALSE, NoCond, FALSE, NoName, <<>>)
auto_end_node == Node(AUTO_END_ID, "AUTO_END", -1, "AUTO_END", FALSE, NoCond, FALSE, NoName, <<>>)

\* InkLineParser.parse_line: the node of source line number ln and the
\* level carried over to the next line
parse_line(l, ln, id, last_level) ==
    CASE l.k = "DIVERT" ->
           [node |-> Node(id, "DIVERT", last_level, l.nm, FALSE, NoCond, FALSE, NoName, <<>>),
            level |-> last_level]
      [] l.k \in {"KNOT", "STITCHES"} ->
           [node |-> Node(id, l.k, 0, l.nm, FALSE, NoCond, FALSE, NoName, <<>>),
            level |-> 0]
      [] l.k \in {"CHOICE", "GATHER"} ->
           [node |-> [Node(id, l.k, l.c, NoName, l.k = "CHOICE" /\ l.st, l.cd,
                           l.fb, l.dv, <<ln>>) EXCEPT !.br = l.br],
            level |-> l.c]
      [] OTHER ->
           [node |-> Node(id, "BASE", last_level, NoName, FALSE, NoCond, FALSE, l.dv, <<ln>>),
            level |-> last_level]

\* LineMerger.can_merge_with_previous
can_merge_with_previous(lines, node) ==
    /\ node.type = "BASE"
    /\ Len(lines) > 0
    /\ Last(lines).type \in {"GATHER", "CHOICE", "BASE"}

\* the divert target read from "-> nm" followed by the text of a
\* continuation line ("-> BEGIN X" names "BEGIN X"): the name of no
\* knot or stitch of the model's stories
WithText(nm) == "other"

\* LineMerger.merge_with_previous: a fresh Node built from level, type,
\* content, raw text, line number and condition only
merge_with_previous(prev, node, id) ==
    [Node(id, prev.type, prev.level, NoName, FALSE,
          IF prev.condition # NoCond THEN prev.condition ELSE node.condition,
          prev.arrow,
          IF prev.dv # NoName THEN WithText(prev.dv) ELSE node.dv,
          prev.src \o node.src)
     EXCEPT !.clash = prev.clash \/ (prev.dv # NoName /\ node.dv # NoName),
            !.br = prev.br]

\* InkParser.parse, the loop over the source lines: parse_line followed by
\* LineMerger.add_node.  st = [lines, next_id, level]
RECURSIVE ParseLines(_, _, _)
ParseLines(src, i, st) ==
    IF i > Len(src) THEN st
    ELSE LET p == parse_line(src[i], i, st.next_id, st.level)
             n == p.node
         IN IF can_merge_with_previous(st.lines, n)
            THEN LET prev == Last(st.lines)
                     m == merge_with_previous(prev, n, st.next_id + 1)
                 IN ParseLines(src, i + 1,
                       [lines |-> [st.lines EXCEPT ![Len(st.lines)] = m],
                        next_id |-> st.next_id + 2,
                        level |-> p.level])
            ELSE ParseLines(src, i + 1,
                       [lines |-> Append(st.lines, n),
                        next_id |-> st.next_id + 1,
                        level |-> p.level])

MergedLines(src) ==
    ParseLines(src, 1, [lines |-> <<>>, next_id |-> 1, level |-> 0])

\* ------------------------------------------------------------------------
\* Node.post_process (core/models.py): parse_divert, then the content-only
\* steps.  Returns the node, the spawned divert node (or none) and whether
\* content.split("->") found more than two parts.
\* ------------------------------------------------------------------------
\* parse_divert cutting "-> target" off the content without creating the
\* divert node
parse_divert_dropping_target(node, id) ==
    IF node.type = "DIVERT"
    THEN [node |-> node, spawned |-> <<>>, err |-> FALSE]
    ELSE IF node.arrow
    THEN [node |-> [node EXCEPT !.is_fallback = TRUE, !.arrow = FALSE,
                                !.dv = NoName],
          spawned |-> <<>>, err |-> FALSE]
    ELSE [node |-> [node EXCEPT !.dv = NoName], spawned |-> <<>>, err |-> FALSE]

parse_divert(node, id) ==
    IF node.type = "DIVERT"
    THEN [node |-> node, spawned |-> <<>>, err |-> FALSE]
    ELSE IF node.arrow
    THEN [node |-> [node EXCEPT !.is_fallback = TRUE, !.arrow = FALSE,
                                !.dv = NoName],
          spawned |-> <<>>, err |-> FALSE]
    ELSE IF node.dv # NoName
    THEN [node |-> [node EXCEPT !.dv = NoName],
          spawned |-> <<Node(id, "DIVERT", node.level, node.dv, FALSE, NoCond,
                             FALSE, NoName, <<>>)>>,
          err |-> node.clash]
    ELSE [node |-> node, spawned |-> <<>>, err |-> FALSE]

\* Node.parse_choice (extract_parts: choice_text = before + inside,
\* content = before + after) followed by parse_instruction, which cuts the
\* content at "#"
parse_choice(node) ==
    CASE node.br = "only" ->
           [node EXCEPT !.choice_text = "text",
                        !.content = IF Len(node.src) > 1 THEN "text" ELSE "empty",
                        !.same = FALSE]
      [] node.br = "suffix" ->
           [node EXCEPT !.choice_text = "text", !.content = "text", !.same = FALSE]
      [] node.br = "hidden" ->
           [node EXCEPT !.choice_text = "empty", !.content = "text", !.same = FALSE]
      [] node.br = "tag" ->
           [node EXCEPT !.choice_text = "text", !.content = "blank", !.same = FALSE]
      [] OTHER ->
           [node EXCEPT !.choice_text = node.content, !.same = TRUE]

post_process(node, id) ==
    LET p == parse_divert(node, id)
    IN IF node.type = "CHOICE"
       THEN [p EXCEPT !.node = parse_choice(p.node)]
       ELSE p

\* ------------------------------------------------------------------------
\* RawStoryBuilder (core/parser.py).  A block is the sequence of its nodes
\* in insertion order.  None is 0 for ids and <<>> for the knot header.
\*   b = [header, knots, knots_info, current_knot_id, current_knot_header,
\*        current_stitches, current_stitches_id, current_knot_name,
\*        current_stitch_name, next_id, err]
\*   a knot: [id, header, stitches]; a stitch: [id, name, nodes]
\* ------------------------------------------------------------------------
NewBuilder(next_id) ==
    [header |-> <<>>, knots |-> <<>>, knots_info |-> <<>>,
     current_knot_id |-> 0, current_knot_header |-> <<>>,
     current_stitches |-> <<>>, current_stitches_id |-> 0,
     current_knot_name |-> HEADER, current_stitch_name |-> HEADER,
     next_id |-> next_id, err |-> FALSE]

finalize_current_knot(b) ==
    IF b.current_knot_id # 0
       /\ (b.current_knot_header # <<>> \/ b.current_stitches # <<>>)
    THEN [b EXCEPT !.knots = Append(@, [id |-> b.current_knot_id,
                                         header |-> b.current_knot_header,
                                         stitches |-> b.current_stitches]),
                   !.current_knot_header = <<>>,
                   !.current_stitches = <<>>,
                   !.current_stitches_id = 0]
    ELSE b

start_new_knot(b, node) ==
    [finalize_current_knot(b) EXCEPT
        !.knots_info = Append(@, node),
        !.current_knot_id = node.id,
        !.current_knot_name = IF node.name # NoName THEN node.name ELSE HEADER,
        !.current_stitch_name = HEADER]

start_new_stitches(b, node) ==
    [b EXCEPT
        !.current_stitches = Append(@, [id |-> node.id, name |-> node.name,
                                        nodes |-> <<>>]),
        !.current_stitches_id = node.id,
        !.current_stitch_name = IF node.name # NoName THEN node.name ELSE HEADER]

\* index of the current stitch in current_stitches
StitchIdx(b) ==
    CHOOSE i \in 1..Len(b.current_stitches) :
        b.current_stitches[i].id = b.current_stitches_id

add_content_node(b, node0, spawned) ==
    LET node == [node0 EXCEPT !.knot_name = b.current_knot_name,
                              !.stitch_name = b.current_stitch_name]
        new == <<node>> \o spawned
    IN IF b.current_knot_id = 0
       THEN [b EXCEPT !.header = @ \o new]
       ELSE IF b.current_stitches_id # 0
       THEN [b EXCEPT !.current_stitches[StitchIdx(b)].nodes = @ \o new]
       ELSE [b EXCEPT !.current_knot_header = @ \o new]

process_node(b, node) ==
    CASE node.type = "KNOT" -> start_new_knot(b, node)
      [] node.type = "STITCHES" -> start_new_stitches(b, node)
      [] OTHER ->
           LET p == post_process(node, b.next_id)
               b1 == add_content_node(b, p.node, p.spawned)
           IN [b1 EXCEPT !.next_id = @ + Len(p.spawned),
                         !.err = @ \/ p.err]

RECURSIVE BuildFrom(_, _, _)
BuildFrom(nodes, i, b) ==
    IF i > Len(nodes) THEN finalize_current_knot(b)
    ELSE BuildFrom(nodes, i + 1, process_node(b, nodes[i]))

\* build_story: [header, knots, knots_info, err]
build_story(merged) == BuildFrom(merged.lines, 1, NewBuilder(merged.next_id))

\* clean_lines: source text -> RawStory
clean_lines(src) == build_story(MergedLines(src))

\* ------------------------------------------------------------------------
\* Name tables (core/models.py, RawKnot / RawStory.block_name_to_id)
\* ------------------------------------------------------------------------
\* f"{knot}.{stitch}" for the names the model's sources use
Qual(k, s) ==
    CASE k = "a" /\ s = "a" -> "a.a"
      [] k = "a" /\ s = "s" -> "a.s"
      [] k = "a" /\ s = "END" -> "a.END"
      [] k = "b" /\ s = "a" -> "b.a"
      [] k = "b" /\ s = "s" -> "b.s"
      [] k = "b" /\ s = "END" -> "b.END"
      [] k = "END" /\ s = "a" -> "END.a"
      [] k = "END" /\ s = "s" -> "END.s"
      [] k = "END" /\ s = "END" -> "END.END"
      [] OTHER -> "other.other"

\* index of the last element of seq whose name is nm
LastNamed(seq, nm) ==
    CHOOSE i \in 1..Len(seq) :
        /\ seq[i].name = nm
        /\ \A j \in (i + 1)..Len(seq) : seq[j].name # nm

\* list(self.stitches[item_id].values())[0] fails on a stitch without nodes
KnotTableFails(knot) ==
    \E i \in 1..Len(knot.stitches) : knot.stitches[i].nodes = <<>>

\* RawKnot.block_name_to_id: stitch name -> id of the stitch's first node
knot_block_name_to_id(knot) ==
    [nm \in {knot.stitches[i].name : i \in 1..Len(knot.stitches)} |->
        knot.stitches[LastNamed(knot.stitches, nm)].nodes[1].id]

\* RawKnot.first_id
first_id(knot) ==
    IF Len(knot.header) > 0 THEN knot.header[1].id
    ELSE knot.stitches[1].nodes[1].id

\* the stored knot of a knot header node (self.knots[item_id])
HasKnot(story, id) == \E i \in 1..Len(story.knots) : story.knots[i].id = id
KnotOf(story, id) ==
    story.knots[CHOOSE i \in 1..Len(story.knots) : story.knots[i].id = id]

\* RawStory.block_name_to_id raises KeyError for a knot header without a
\* stored knot and IndexError for a stitch without nodes
StoryTableFails(story) ==
    \E i \in 1..Len(story.knots_info) :
        IF HasKnot(story, story.knots_info[i].id)
        THEN KnotTableFails(KnotOf(story, story.knots_info[i].id))
        ELSE TRUE

\* the assignments ret[name] = id of RawStory.block_name_to_id, in the
\* order it makes them: for each knot header its name, then the names of
\* its stitches qualified by it
TableWrites(story) ==
    LET info == story.knots_info
        Writes(i) ==
            LET knot == KnotOf(story, info[i].id)
                lt == knot_block_name_to_id(knot)
            IN <<[name |-> info[i].name, id |-> first_id(knot)]>>
               \o [j \in 1..Len(knot.stitches) |->
                     [name |-> Qual(info[i].name, knot.stitches[j].name),
                      id |-> lt[knot.stitches[j].name]]]
    IN Flatten([i \in 1..Len(info) |-> Writes(i)])

\* RawStory.block_name_to_id: knot name -> first id of the knot, and
\* "knot.stitch" -> first id of the stitch; a later entry replaces an
\* earlier one of the same name
story_block_name_to_id(story) ==
    LET writes == TableWrites(story)
    IN [nm \in {writes[i].name : i \in 1..Len(writes)} |->
          writes[LastNamed(writes, nm)].id]

\* ------------------------------------------------------------------------
\* Graph builder (parser/graph_story.py)
\* ------------------------------------------------------------------------
\* nodes of nx.DiGraph(edges)
GraphNodes(edges) ==
    {edges[i][1] : i \in 1..Len(edges)} \cup {edges[i][2] : i \in 1..Len(edges)}

OutDegree(n, edges) == Cardinality({edges[i][2] : i \in {j \in 1..Len(edges) : edges[j][1] = n}})

\* nodes reachable from the set S along edges
RECURSIVE ReachFrom(_, _)
ReachFrom(S, edges) ==
    LET next == S \cup {edges[i][2] : i \in {j \in 1..Len(edges) : edges[j][1] \in S}}
    IN IF next = S THEN S ELSE ReachFrom(next, edges)

\* nx.descendants(G, n): the nodes reachable from n, n itself excluded
descendants(n, edges) == ReachFrom({n}, edges) \ {n}

\* find_leaves_from_node looking at the descendants only, the start node
\* left out
find_leaves_from_node_descendants_only(start_node_id, edges) ==
    IF start_node_id \notin GraphNodes(edges)
    THEN <<start_node_id>>
    ELSE SetToSeq({n \in descendants(start_node_id, edges) :
                      OutDegree(n, edges) = 0})

\* find_leaves_from_node; the leaves are listed in increasing id order
find_leaves_from_node(start_node_id, edges) ==
    IF start_node_id \notin GraphNodes(edges)
    THEN <<start_node_id>>
    ELSE SetToSeq({n \in descendants(start_node_id, edges) \cup {start_node_id} :
                      OutDegree(n, edges) = 0})

\* node_at_level is a dict level -> list of ids: a function whose domain
\* is the set of keys present
EnsureLevel(nal, level) ==
    [l \in DOMAIN nal \cup {level} |-> IF l \in DOMAIN nal THEN nal[l] ELSE <<>>]

HasParent(nal, level) ==
    /\ level > 0
    /\ (level - 1) \in DOMAIN nal
    /\ Len(nal[level - 1]) > 0

\* BASE and CHOICE branches of parse_base_block.  bs = [edges, nal, err]
StepContent(bs, node) ==
    LET nal1 == EnsureLevel(bs.nal, node.level)
    IN [edges |-> IF HasParent(nal1, node.level)
                  THEN Append(bs.edges, <<Last(nal1[node.level - 1]), node.id>>)
                  ELSE bs.edges,
        nal |-> [nal1 EXCEPT ![node.level] = Append(@, node.id)],
        err |-> bs.err]

\* the edges (leaf, gather) of one recorded node
LeafEdges(leaves, item_id) == [i \in 1..Len(leaves) |-> <<leaves[i], item_id>>]

\* the loop over node_at_level[node.level]: each find_leaves_from_node
\* call sees the edges appended for the recorded nodes before it
RECURSIVE GatherLoop(_, _, _, _)
GatherLoop(recorded, i, edges, item_id) ==
    IF i > Len(recorded) THEN edges
    ELSE GatherLoop(recorded, i + 1,
                    edges \o LeafEdges(find_leaves_from_node(recorded[i], edges), item_id),
                    item_id)

\* GATHER branch; node_at_level[level - 1][-1] = item_id raises IndexError
\* when that list exists and is empty
StepGather(bs, node) ==
    LET nal1 == EnsureLevel(bs.nal, node.level)
        edges1 == GatherLoop(nal1[node.level], 1, bs.edges, node.id)
        nal2 == [nal1 EXCEPT ![node.level] = <<>>]
        up == node.level - 1
    IN IF up \notin DOMAIN nal2
       THEN [edges |-> edges1,
             nal |-> [l \in DOMAIN nal2 \cup {up} |->
                         IF l = up THEN <<node.id>> ELSE nal2[l]],
             err |-> bs.err]
       ELSE IF nal2[up] = <<>>
       THEN [edges |-> edges1, nal |-> nal2, err |-> TRUE]
       ELSE [edges |-> edges1,
             nal |-> [nal2 EXCEPT ![up] = [@ EXCEPT ![Len(@)] = node.id]],
             err |-> bs.err]

\* the lookup with the global table consulted before the local one
Resolve_global_first(name, local, global) ==
    IF name \in DOMAIN global THEN global[name]
    ELSE IF name \in DOMAIN local THEN local[name]
    ELSE KEY_KNOT_NAME[name]

\* the lookup order of the DIVERT branch: local table, global table,
\* KEY_KNOT_NAME
Resolvable(name, local, global) ==
    name \in DOMAIN local \cup DOMAIN global \cup DOMAIN KEY_KNOT_NAME

Resolve(name, local, global) ==
    IF name \in DOMAIN local THEN local[name]
    ELSE IF name \in DOMAIN global THEN global[name]
    ELSE KEY_KNOT_NAME[name]

\* the DIVERT branch passing over a name it cannot resolve
StepDivert_skips_unknown(bs, node, local, global) ==
    LET nal1 == EnsureLevel(bs.nal, node.level)
        source == IF Len(nal1[node.level]) > 0 THEN Last(nal1[node.level])
                  ELSE BEGIN_ID
    IN IF ~Resolvable(node.name, local, global)
       THEN [edges |-> bs.edges, nal |-> nal1, err |-> bs.err]
       ELSE IF Len(nal1[node.level]) > 0 \/ node.level = 0
       THEN [edges |-> Append(bs.edges, <<source, Resolve(node.name, local, global)>>),
             nal |-> nal1, err |-> bs.err]
       ELSE [edges |-> bs.edges, nal |-> nal1, err |-> TRUE]

\* DIVERT branch
StepDivert(bs, node, local, global) ==
    LET nal1 == EnsureLevel(bs.nal, node.level)
        source == IF Len(nal1[node.level]) > 0 THEN Last(nal1[node.level])
                  ELSE BEGIN_ID
    IN IF (Len(nal1[node.level]) > 0 \/ node.level = 0)
          /\ Resolvable(node.name, local, global)
       THEN [edges |-> Append(bs.edges, <<source, Resolve(node.name, local, global)>>),
             nal |-> nal1, err |-> bs.err]
       ELSE [edges |-> bs.edges, nal |-> nal1, err |-> TRUE]

\* one iteration of the loop of parse_base_block
BlockStep(bs, node, local, global) ==
    IF bs.err THEN bs
    ELSE CASE node.type \in {"BASE", "CHOICE"} -> StepContent(bs, node)
           [] node.type = "GATHER" -> StepGather(bs, node)
           [] node.type = "DIVERT" -> StepDivert(bs, node, local, global)
           [] OTHER -> bs

NewBlock == [edges |-> <<>>, nal |-> <<>>, err |-> FALSE]

RECURSIVE BlockFrom(_, _, _, _, _)
BlockFrom(nodes, i, bs, local, global) ==
    IF i > Len(nodes) THEN bs
    ELSE BlockFrom(nodes, i + 1, BlockStep(bs, nodes[i], local, global), local, global)

\* parse_base_block: [edges, nal, err]
parse_base_block(nodes, local, global) == BlockFrom(nodes, 1, NewBlock, local, global)

EmptyTable == [nm \in {} |-> 0]

\* RawKnot.get_blocks
get_blocks(knot) ==
    (IF Len(knot.header) > 0 THEN <<knot.header>> ELSE <<>>)
    \o [i \in 1..Len(knot.stitches) |-> knot.stitches[i].nodes]

\* the blocks in the order parse_story / parse_knot walk them, each with
\* its local name table, the id and name of its knot (0, NoName: the story
\* header) and the name of its stitch (NoName: a header)
RECURSIVE KnotBlocks(_, _)
KnotBlocks(story, i) ==
    IF i > Len(story.knots) THEN <<>>
    ELSE LET knot == story.knots[i]
             bl == get_blocks(knot)
             lt == knot_block_name_to_id(knot)
             hd == IF Len(knot.header) > 0 THEN 1 ELSE 0
             info == story.knots_info
         IN [j \in 1..Len(bl) |->
               [nodes |-> bl[j], local |-> lt, knot |-> knot.id,
                knot_name |-> info[CHOOSE k \in 1..Len(info) :
                                      info[k].id = knot.id].name,
                stitch |-> IF j <= hd THEN NoName
                           ELSE knot.stitches[j - hd].name]]
            \o KnotBlocks(story, i + 1)

StoryBlocks(story) ==
    (IF Len(story.header) > 0
     THEN <<[nodes |-> story.header, local |-> EmptyTable, knot |-> 0,
             knot_name |-> NoName, stitch |-> NoName]>>
     ELSE <<>>)
    \o KnotBlocks(story, 1)

\* parse_story: [nodes, edges, err]; nodes is the sequence of the parsed
\* nodes in the insertion order of final_nodes, the three sentinels last
parse_story(story) ==
    IF story.err \/ StoryTableFails(story)
    THEN [nodes |-> <<>>, edges |-> <<>>, err |-> TRUE]
    ELSE LET global == story_block_name_to_id(story)
             blocks == StoryBlocks(story)
             res == [i \in 1..Len(blocks) |->
                       parse_base_block(blocks[i].nodes, blocks[i].local, global)]
         IN IF \E i \in 1..Len(blocks) : res[i].err
            THEN [nodes |-> <<>>, edges |-> <<>>, err |-> TRUE]
            ELSE [nodes |-> Flatten([i \in 1..Len(blocks) |-> blocks[i].nodes])
                            \o <<end_node, begin_node, auto_end_node>>,
                  edges |-> Flatten([i \in 1..Len(blocks) |-> res[i].edges]),
                  err |-> FALSE]

\* ------------------------------------------------------------------------
\* StoryEngine (core/story_engine.py): construction
\* ------------------------------------------------------------------------
NodeIds(ns) == {ns[i].id : i \in 1..Len(ns)}

NodeById(ns, id) == ns[CHOOSE i \in 1..Len(ns) : ns[i].id = id]

Sources(es) == {es[i][1] : i \in 1..Len(es)}
Targets(es) == {es[i][2] : i \in 1..Len(es)}

\* _find_start_node: the edge list it leaves behind (it returns -2 on
\* every path)
find_start_edges(ns, es) ==
    IF es = <<>>
    THEN Append(es, <<BEGIN_ID, IF Len(ns) > 0 THEN ns[1].id ELSE 1>>)
    ELSE LET all_nodes_in_edges == Targets(es) \cup Sources(es)
             nodes_with_incoming ==
                 Targets(es) \cup {END_ID}
                 \cup (IF BEGIN_ID \notin all_nodes_in_edges THEN {BEGIN_ID} ELSE {})
             all_nodes == NodeIds(ns) \ {AUTO_END_ID}
             start_candidates == all_nodes \ nodes_with_incoming
             candidate_start == IF start_candidates # {} THEN Min(start_candidates)
                                ELSE ns[1].id
         IN IF candidate_start = BEGIN_ID THEN es
            ELSE Append(es, <<BEGIN_ID, candidate_start>>)

\* _fill_auto_end_node as its comment puts it: every node without
\* children gets the edge, the nodes that are in no edge included
fill_auto_end_edges_with_orphans(ns, es) ==
    LET all_nodes == NodeIds(ns) \ Sentinels
        rem == SetToSeq(all_nodes \ Sources(es))
    IN es \o [i \in 1..Len(rem) |-> <<rem[i], AUTO_END_ID>>]

\* _fill_auto_end_node
fill_auto_end_edges(ns, es) ==
    LET all_nodes == NodeIds(ns) \ Sentinels
        all_nodes_in_edges == Targets(es) \cup Sources(es)
        orphan_nodes == all_nodes \ all_nodes_in_edges
        remaining_nodes == (all_nodes \ Sources(es)) \ orphan_nodes
        rem == SetToSeq(remaining_nodes)
    IN es \o [i \in 1..Len(rem) |-> <<rem[i], AUTO_END_ID>>]

\* ContainerState()
NewContainerState == [status |-> "not_clicked", seen_count |-> 0, last_seen_turn |-> -1]

\* the keys _initialize_container_states creates
KnotKeys(ns) ==
    {ns[i].knot_name : i \in {j \in 1..Len(ns) : ns[j].knot_name # HEADER}}

StitchKeys(ns) ==
    {Qual(ns[i].knot_name, ns[i].stitch_name) :
        i \in {j \in 1..Len(ns) : ns[j].knot_name # HEADER /\ ns[j].stitch_name # HEADER}}

initial_container_states(ns) ==
    [k \in KnotKeys(ns) \cup StitchKeys(ns) |-> NewContainerState]

\* ------------------------------------------------------------------------
\* State
\* ------------------------------------------------------------------------
VARIABLES
    src,                            \* the source text, as its lines
    let_people_choose_one_choice,   \* constructor flag
    nodes,                          \* self.nodes, in insertion order
    edges,                          \* self.edges
    graph,                          \* self.graph: the edge list it was built from
    current_node_id,
    story_history,
    is_story_complete,
    node_visited,                   \* dict id -> count
    node_can_be_visited_again,      \* dict id -> bool
    container_states,               \* dict name -> ContainerState
    pc,                             \* "idle", or "follow" inside _follow_story_path
    op,                             \* the call in progress or last finished
    arg,                            \* the node id that call was given (0: none)
    ret,                            \* its outcome
    path,                           \* the nodes the advance loop processed in this call
    taken,                          \* the choices make_choice has accepted
    calls,                          \* number of accepted calls so far
    blocks,                         \* graph builder: the blocks to walk
    global_table,                   \* graph builder: RawStory.block_name_to_id
    block_index,                    \* graph builder: block being walked
    node_index,                     \* graph builder: nodes of it already walked
    block_state,                    \* graph builder: edges / node_at_level of the block
    final_edges,                    \* graph builder: edges of the finished blocks
    build_status,                   \* "building", "done", "error", or "engine"
    game_variables,                 \* self.game_variables / the provider's variables
    condition,                      \* the condition handed to evaluate
    leaves                          \* the list find_leaves_from_node returned

run_vars == <<let_people_choose_one_choice, graph, current_node_id,
              story_history, is_story_complete, node_visited,
              node_can_be_visited_again, container_states,
              pc, op, arg, ret, path, taken, calls>>

engine_vars == <<nodes, edges, run_vars>>

builder_vars == <<blocks, global_table, block_index, node_index, block_state,
                  final_edges, build_status>>

cond_vars == <<game_variables, condition>>

vars == <<src, engine_vars, builder_vars, cond_vars, leaves>>

\* self.current_turn is set to 0 by the constructor and never written again
current_turn == 0

\* ------------------------------------------------------------------------
\* StoryEngine: queries
\* ------------------------------------------------------------------------
\* list(self.graph.successors(n)): targets in order of first insertion
RECURSIVE SuccFrom(_, _, _, _)
SuccFrom(es, i, n, acc) ==
    IF i > Len(es) THEN acc
    ELSE SuccFrom(es, i + 1, n,
                  IF es[i][1] = n /\ es[i][2] \notin Range(acc)
                  THEN Append(acc, es[i][2]) ELSE acc)

successors(n) == SuccFrom(graph, 1, n, <<>>)

\* self.node_can_be_visited_again.get(id, True)
CanVisit(can, id) == IF id \in DOMAIN can THEN can[id] ELSE TRUE

\* _get_next_nodes
get_next_nodes(n, can) ==
    IF n \in GraphNodes(graph)
    THEN SelectSeq(successors(n), LAMBDA m : CanVisit(can, m))
    ELSE <<>>

\* UnaryCondition.evaluate for the seen-count kinds; _evaluate_condition
\* returns True when there is no condition
evaluate_condition(cond, cs) ==
    IF cond = NoCond THEN TRUE
    ELSE IF cond.ref \notin DOMAIN cs THEN FALSE
    ELSE CASE cond.t = "seen_count_gt" -> cs[cond.ref].seen_count > cond.v
           [] cond.t = "seen_count_lt" -> cs[cond.ref].seen_count < cond.v
           [] cond.t = "seen_count_eq" -> cs[cond.ref].seen_count = cond.v
           [] OTHER -> FALSE

IsChoice(id) == id \in NodeIds(nodes) /\ NodeById(nodes, id).type = "CHOICE"

\* the test of _get_choice_nodes on one choice node
Eligible(id, nv) == NodeById(nodes, id).is_sticky \/ id \notin DOMAIN nv

\* _get_choice_nodes returning the fallback choices together with the
\* regular ones
get_choice_nodes_with_fallbacks(ids, nv, cs) ==
    SelectSeq(ids, LAMBDA m :
        /\ IsChoice(m)
        /\ Eligible(m, nv)
        /\ \/ NodeById(nodes, m).is_fallback
           \/ evaluate_condition(NodeById(nodes, m).condition, cs))

\* _get_choice_nodes: the ids of the nodes it returns
get_choice_nodes(ids, nv, cs) ==
    LET considered == SelectSeq(ids, LAMBDA m : IsChoice(m) /\ Eligible(m, nv))
        fallback_choice == SelectSeq(considered,
                              LAMBDA m : NodeById(nodes, m).is_fallback)
        choice_nodes == SelectSeq(considered,
                           LAMBDA m : /\ ~NodeById(nodes, m).is_fallback
                                      /\ evaluate_condition(NodeById(nodes, m).condition, cs))
    IN IF choice_nodes # <<>> THEN choice_nodes ELSE fallback_choice

\* get_available_choices offering every choice successor whose condition
\* holds, taken before or not
get_available_choices_unfiltered ==
    IF is_story_complete THEN <<>>
    ELSE SelectSeq(successors(current_node_id),
                   LAMBDA m : /\ IsChoice(m)
                              /\ evaluate_condition(NodeById(nodes, m).condition,
                                                    container_states))

\* get_available_choices
get_available_choices ==
    IF is_story_complete THEN <<>>
    ELSE get_choice_nodes(get_next_nodes(current_node_id, node_can_be_visited_again),
                          node_visited, container_states)

AvailableIds == Range(get_available_choices)

\* `if node.content`: the content is a non-empty string
HasContent(n) == n.content \in {"blank", "text"}

\* `if choice_node.choice_text`
HasChoiceText(n) == n.choice_text \in {"blank", "text"}

\* `content and content != choice_text and content.strip()`
HasOwnContent(n) == n.content = "text" /\ ~n.same

Entry(k, id) == [k |-> k, id |-> id]

\* ------------------------------------------------------------------------
\* Sources
\* ------------------------------------------------------------------------
SeqsUpTo(S, n) == UNION {[1..k -> S] : k \in 0..n}

EngineLines ==
    {BaseLine(NoName), KnotLine("a"), DivertLine("BEGIN"), DivertLine("END"),
     ChoiceLine(1, FALSE, NoCond, NoName, FALSE),
     ChoiceLine(1, FALSE, NoCond, "BEGIN", FALSE),
     ChoiceLine(1, TRUE, NoCond, "BEGIN", FALSE),
     ChoiceLine(1, TRUE, CondNot("a"), "BEGIN", FALSE),
     ChoiceLine(1, FALSE, NoCond, NoName, TRUE)}

\* "Hello / * A -> a / * B -> b / == a == / Got A / == b == / Got B"
DivertStory ==
    <<BaseLine(NoName),
      ChoiceLine(1, FALSE, NoCond, "a", FALSE),
      ChoiceLine(1, FALSE, NoCond, "b", FALSE),
      KnotLine("a"), BaseLine(NoName),
      KnotLine("b"), BaseLine(NoName)>>

\* "-> a / == a == / X / * c -> a": a knot coming back to itself through
\* a once-only choice
LoopStory ==
    <<DivertLine("a"), KnotLine("a"), BaseLine(NoName),
      ChoiceLine(1, FALSE, NoCond, "a", FALSE)>>

\* knots with a stitch
StitchStories ==
    {<<KnotLine("a"), StitchLine("s"), BaseLine(NoName)>>,
     <<KnotLine("a"), BaseLine(NoName), StitchLine("s"), BaseLine(NoName)>>}

Brackets == {"only", "suffix", "hidden", "tag"}

\* a choice with brackets, alone and followed by a continuation line
BracketStories ==
    {<<BracketChoiceLine(1, br)>> : br \in Brackets}
    \cup {<<BracketChoiceLine(1, br), BaseLine(NoName)>> : br \in Brackets}

\* "+ c / X" and "+ c / X / -> BEGIN": a sticky choice with a second line
StickyStories ==
    {<<ChoiceLine(1, TRUE, NoCond, NoName, FALSE), BaseLine(NoName)>>,
     <<ChoiceLine(1, TRUE, NoCond, NoName, FALSE), BaseLine(NoName),
       DivertLine("BEGIN")>>}

\* "== a.s == / Y -> a / == a == / = s / X": a knot whose name is the
\* qualified name of a stitch of another knot
ClashStory ==
    <<KnotLine("a.s"), BaseLine("a"), KnotLine("a"), StitchLine("s"),
      BaseLine(NoName)>>

ScenarioSources ==
    {DivertStory, LoopStory, ClashStory} \cup StitchStories \cup BracketStories
    \cup StickyStories

EngineSources == SeqsUpTo(EngineLines, MaxLines) \cup ScenarioSources

\* ------------------------------------------------------------------------
\* StoryEngine.__init__
\* ------------------------------------------------------------------------
BuilderIdle ==
    /\ blocks = <<>>
    /\ global_table = EmptyTable
    /\ block_index = 0
    /\ node_index = 0
    /\ block_state = NewBlock
    /\ final_edges = <<>>
    /\ build_status = "engine"

\* what the constructor computes from the story text; err: parsing raised
Constructed(story_text) ==
    LET parsed == parse_story(clean_lines(story_text))
    IN IF parsed.err
       THEN [err |-> TRUE, nodes |-> <<>>, edges |-> <<>>,
             container_states |-> <<>>]
       ELSE [err |-> FALSE,
             nodes |-> parsed.nodes,
             edges |-> fill_auto_end_edges(parsed.nodes,
                          find_start_edges(parsed.nodes, parsed.edges)),
             container_states |-> initial_container_states(parsed.nodes)]

Init ==
    /\ \E story_text \in EngineSources :
          LET e == Constructed(story_text)
          IN /\ ~e.err
             /\ src = story_text
             /\ nodes = e.nodes
             /\ edges = e.edges
             /\ graph = e.edges
             /\ container_states = e.container_states
    /\ let_people_choose_one_choice \in BOOLEAN
    /\ current_node_id = BEGIN_ID
    /\ story_history = <<>>
    /\ is_story_complete = FALSE
    /\ node_visited = EmptyTable
    /\ node_can_be_visited_again = [id \in {} |-> TRUE]
    /\ pc = "idle"
    /\ op = "init"
    /\ arg = 0
    /\ ret = "none"
    /\ path = <<>>
    /\ taken = {}
    /\ calls = 0
    /\ game_variables = EmptyTable
    /\ condition = NoCond
    /\ leaves = <<>>
    /\ BuilderIdle

\* ------------------------------------------------------------------------
\* StoryEngine: operations
\* ------------------------------------------------------------------------
\* start_story up to the call of _follow_story_path
start_story ==
    /\ pc = "idle"
    /\ calls < MaxCalls
    /\ story_history' =
          IF HasContent(NodeById(nodes, current_node_id))
          THEN Append(story_history, Entry("content", current_node_id))
          ELSE story_history
    /\ pc' = "follow"
    /\ op' = "start_story"
    /\ arg' = 0
    /\ ret' = "pending"
    /\ path' = <<>>
    /\ calls' = calls + 1
    /\ UNCHANGED <<src, cond_vars, leaves, let_people_choose_one_choice, nodes, edges, graph,
                   current_node_id, is_story_complete, node_visited,
                   node_can_be_visited_again, container_states, taken,
                   builder_vars>>

\* make_choice checking that the node belongs to the story, not that it is
\* on offer
Rejects_unknown_node(n) == is_story_complete \/ n \notin NodeIds(nodes)

\* the two early returns of make_choice
Rejects(n) == is_story_complete \/ n \notin AvailableIds

\* make_choice, returning False
MakeChoiceRejected(n) ==
    /\ pc = "idle"
    /\ Rejects(n)
    /\ op' = "make_choice"
    /\ arg' = n
    /\ ret' = "false"
    /\ UNCHANGED <<src, cond_vars, leaves, let_people_choose_one_choice, nodes, edges, graph,
                   current_node_id, story_history, is_story_complete,
                   node_visited, node_can_be_visited_again, container_states,
                   pc, path, taken, calls, builder_vars>>

\* the assignment without its `if not node.is_sticky`
mark_taken_always(can, node) ==
    [id \in DOMAIN can \cup {node.id} |-> IF id = node.id THEN FALSE ELSE can[id]]

\* `if not node.is_sticky: self.node_can_be_visited_again[node.item_id] = False`
mark_taken(can, node) ==
    IF ~node.is_sticky
    THEN [id \in DOMAIN can \cup {node.id} |->
             IF id = node.id THEN FALSE ELSE can[id]]
    ELSE can

\* the history additions of make_choice with the content added whenever
\* there is one
choice_entries_always_content(node) ==
    (IF HasChoiceText(node) THEN <<Entry("bullet", node.id)>> ELSE <<>>)
    \o (IF HasContent(node) THEN <<Entry("content", node.id)>> ELSE <<>>)

\* what make_choice adds to the history for the chosen node: the bullet
\* line of its choice_text, then its content if it is another text
choice_entries(node) ==
    (IF HasChoiceText(node) THEN <<Entry("bullet", node.id)>> ELSE <<>>)
    \o (IF HasOwnContent(node) THEN <<Entry("content", node.id)>> ELSE <<>>)

\* make_choice up to the call of _follow_story_path
MakeChoiceAccepted(n) ==
    /\ pc = "idle"
    /\ calls < MaxCalls
    /\ ~Rejects(n)
    /\ current_node_id' = n
    /\ story_history' = story_history \o choice_entries(NodeById(nodes, n))
    /\ node_can_be_visited_again' =
          mark_taken(node_can_be_visited_again, NodeById(nodes, n))
    /\ taken' = taken \cup {n}
    /\ pc' = "follow"
    /\ op' = "make_choice"
    /\ arg' = n
    /\ ret' = "pending"
    /\ path' = <<>>
    /\ calls' = calls + 1
    /\ UNCHANGED <<src, cond_vars, leaves, let_people_choose_one_choice, nodes, edges, graph,
                   is_story_complete, node_visited, container_states,
                   builder_vars>>

make_choice(n) == MakeChoiceRejected(n) \/ MakeChoiceAccepted(n)

\* the nodes a caller may pass: the choices of the story, its BEGIN node
\* and a node that is not part of it
CallArgs ==
    {nodes[i].id : i \in {j \in 1..Len(nodes) : nodes[j].type \in {"CHOICE", "BEGIN"}}}
    \cup {FakeId}

\* the update marking the container seen without counting the visit
SeeContainer_status_only(cs, key) ==
    IF key \in DOMAIN cs
    THEN [cs EXCEPT ![key] = [status |-> "seen",
                              seen_count |-> @.seen_count,
                              last_seen_turn |-> current_turn]]
    ELSE cs

\* _update_container_states_for_node
SeeContainer(cs, key) ==
    IF key \in DOMAIN cs
    THEN [cs EXCEPT ![key] = [status |-> "seen",
                              seen_count |-> @.seen_count + 1,
                              last_seen_turn |-> current_turn]]
    ELSE cs

update_container_states_for_node(cs, node) ==
    LET cs1 == IF node.knot_name # HEADER THEN SeeContainer(cs, node.knot_name)
               ELSE cs
    IN IF node.stitch_name # HEADER
       THEN SeeContainer(cs1, Qual(node.knot_name, node.stitch_name))
       ELSE cs1

\* `visited = set()` is never added to
visited == {}

\* the first statements of one iteration of the loop of _follow_story_path
VisitedAfter == [id \in DOMAIN node_visited \cup {current_node_id} |->
                    IF id = current_node_id
                    THEN (IF id \in DOMAIN node_visited THEN node_visited[id] ELSE 0) + 1
                    ELSE node_visited[id]]

StatesAfter == update_container_states_for_node(container_states,
                                                 NodeById(nodes, current_node_id))

NextNodeIds == get_next_nodes(current_node_id, node_can_be_visited_again)

ChoiceNodes == get_choice_nodes(NextNodeIds, VisitedAfter, StatesAfter)

\* the loop stopping as soon as a next node is a choice, on offer or not
MustStop_on_any_choice ==
    \E i \in 1..Len(NextNodeIds) : IsChoice(NextNodeIds[i])

MustStop ==
    \/ (ChoiceNodes # <<>> /\ let_people_choose_one_choice)
    \/ (Len(ChoiceNodes) > 1 /\ ~let_people_choose_one_choice)

IterationBegins ==
    /\ pc = "follow"
    /\ current_node_id \notin visited
    /\ Len(path) < MaxIter
    /\ node_visited' = VisitedAfter
    /\ container_states' = StatesAfter
    /\ path' = Append(path, current_node_id)

Returned == IF op = "make_choice" THEN "true" ELSE "none"

\* the end of the story reached without the completion flag being set
FollowEnd_not_completing ==
    /\ IterationBegins
    /\ NextNodeIds = <<>>
    /\ NodeById(nodes, current_node_id).type \in {"END", "AUTO_END"}
    /\ story_history' = Append(story_history,
          Entry(IF NodeById(nodes, current_node_id).type = "END"
                THEN "end" ELSE "auto_end", current_node_id))
    /\ pc' = "idle"
    /\ ret' = Returned
    /\ UNCHANGED <<src, cond_vars, leaves, let_people_choose_one_choice, nodes, edges, graph,
                   current_node_id, is_story_complete,
                   node_can_be_visited_again, op, arg, taken, calls,
                   builder_vars>>

\* no next node, on END or AUTO_END
FollowEnd ==
    /\ IterationBegins
    /\ NextNodeIds = <<>>
    /\ NodeById(nodes, current_node_id).type \in {"END", "AUTO_END"}
    /\ story_history' = Append(story_history,
          Entry(IF NodeById(nodes, current_node_id).type = "END"
                THEN "end" ELSE "auto_end", current_node_id))
    /\ is_story_complete' = TRUE
    /\ pc' = "idle"
    /\ ret' = Returned
    /\ UNCHANGED <<src, cond_vars, leaves, let_people_choose_one_choice, nodes, edges, graph,
                   current_node_id, node_can_be_visited_again, op, arg, taken, calls,
                   builder_vars>>

\* no next node, elsewhere: NotImplementedError leaves the call
FollowRaise ==
    /\ IterationBegins
    /\ NextNodeIds = <<>>
    /\ NodeById(nodes, current_node_id).type \notin {"END", "AUTO_END"}
    /\ pc' = "idle"
    /\ ret' = "raised"
    /\ UNCHANGED <<src, cond_vars, leaves, let_people_choose_one_choice, nodes, edges, graph,
                   current_node_id, story_history, is_story_complete,
                   node_can_be_visited_again, op, arg, taken, calls, builder_vars>>

\* choices found: stop so the caller can choose
FollowStop ==
    /\ IterationBegins
    /\ NextNodeIds # <<>>
    /\ MustStop
    /\ pc' = "idle"
    /\ ret' = Returned
    /\ UNCHANGED <<src, cond_vars, leaves, let_people_choose_one_choice, nodes, edges, graph,
                   current_node_id, story_history, is_story_complete,
                   node_can_be_visited_again, op, arg, taken, calls, builder_vars>>

\* move to the next node and add its content
FollowAdvance ==
    /\ IterationBegins
    /\ NextNodeIds # <<>>
    /\ ~MustStop
    /\ LET next_node_id ==
               IF ~let_people_choose_one_choice /\ ChoiceNodes # <<>>
               THEN ChoiceNodes[1] ELSE NextNodeIds[1]
           next_node == NodeById(nodes, next_node_id)
       IN /\ current_node_id' = next_node_id
          /\ story_history' =
                IF /\ HasContent(next_node)
                   /\ \/ next_node.type \in {"GATHER", "BASE"}
                      \/ (next_node.type = "CHOICE" /\ ~let_people_choose_one_choice)
                THEN Append(story_history, Entry("content", next_node_id))
                ELSE story_history
    /\ UNCHANGED <<src, cond_vars, leaves, let_people_choose_one_choice, nodes, edges, graph,
                   is_story_complete, node_can_be_visited_again,
                   pc, op, arg, ret, taken, calls, builder_vars>>

follow_story_path == FollowEnd \/ FollowRaise \/ FollowStop \/ FollowAdvance

\* a reset that also forgets which nodes were visited and which choices
\* were used up
reset_story_clearing_visits ==
    /\ pc = "idle"
    /\ calls < MaxCalls
    /\ story_history' = <<>>
    /\ edges' = find_start_edges(nodes, edges)
    /\ current_node_id' = BEGIN_ID
    /\ is_story_complete' = FALSE
    /\ node_visited' = EmptyTable
    /\ node_can_be_visited_again' = [id \in {} |-> TRUE]
    /\ op' = "reset_story"
    /\ arg' = 0
    /\ ret' = "none"
    /\ calls' = calls + 1
    /\ UNCHANGED <<src, cond_vars, leaves, let_people_choose_one_choice, nodes, graph,
                   container_states, pc, path, taken, builder_vars>>

\* reset_story; _find_start_node works on self.edges, the graph is not rebuilt
reset_story ==
    /\ pc = "idle"
    /\ calls < MaxCalls
    /\ story_history' = <<>>
    /\ edges' = find_start_edges(nodes, edges)
    /\ current_node_id' = BEGIN_ID
    /\ is_story_complete' = FALSE
    /\ op' = "reset_story"
    /\ arg' = 0
    /\ ret' = "none"
    /\ calls' = calls + 1
    /\ UNCHANGED <<src, cond_vars, leaves, let_people_choose_one_choice, nodes, graph, node_visited,
                   node_can_be_visited_again, container_states, pc, path, taken,
                   builder_vars>>

Next ==
    \/ start_story
    \/ \E n \in CallArgs : MakeChoiceRejected(n)
    \/ \E n \in CallArgs : MakeChoiceAccepted(n)
    \/ FollowEnd
    \/ FollowRaise
    \/ FollowStop
    \/ FollowAdvance
    \/ reset_story

Spec == Init /\ [][Next]_vars

\* ------------------------------------------------------------------------
\* parse_story, one node of one block at a time
\* ------------------------------------------------------------------------
GraphLines ==
    {BaseLine(NoName), DivertLine("a"), DivertLine("END"),
     KnotLine("a"), KnotLine("END"), StitchLine("a"), StitchLine("END")}
    \cup {ChoiceLine(l, FALSE, NoCond, NoName, FALSE) : l \in 1..MaxLevel}
    \cup {GatherLine(l, NoName) : l \in 1..MaxLevel}

\* a gather whose line ends in a divert: "- G -> END", alone, after a
\* choice, and in a knot diverting to itself
GatherDivertStories ==
    {<<GatherLine(1, "END")>>,
     <<ChoiceLine(1, FALSE, NoCond, NoName, FALSE), GatherLine(1, "END")>>,
     <<KnotLine("a"), BaseLine(NoName),
       ChoiceLine(1, FALSE, NoCond, NoName, FALSE), GatherLine(1, "a")>>}

\* choice branches ending in a divert, closed by a gather:
\* "== a == / * A -> b / - G / == b == / X" and "* A -> END / * B -> END / - G"
BranchDivertStories ==
    {<<KnotLine("a"), ChoiceLine(1, FALSE, NoCond, "b", FALSE),
       GatherLine(1, NoName), KnotLine("b"), BaseLine(NoName)>>,
     <<ChoiceLine(1, FALSE, NoCond, "END", FALSE),
       ChoiceLine(1, FALSE, NoCond, "END", FALSE), GatherLine(1, NoName)>>}

GraphScenarios == GatherDivertStories \cup BranchDivertStories

GraphSources == SeqsUpTo(GraphLines, MaxGraphLines) \cup GraphScenarios

EngineIdle ==
    /\ let_people_choose_one_choice = TRUE
    /\ nodes = <<>>
    /\ edges = <<>>
    /\ graph = <<>>
    /\ container_states = <<>>
    /\ current_node_id = BEGIN_ID
    /\ story_history = <<>>
    /\ is_story_complete = FALSE
    /\ node_visited = EmptyTable
    /\ node_can_be_visited_again = [id \in {} |-> TRUE]
    /\ pc = "idle"
    /\ op = "parse_story"
    /\ arg = 0
    /\ ret = "none"
    /\ path = <<>>
    /\ taken = {}
    /\ calls = 0
    /\ game_variables = EmptyTable
    /\ condition = NoCond
    /\ leaves = <<>>

\* the RawStory handed to parse_story
InitGraph ==
    /\ \E story_text \in GraphSources :
          LET story == clean_lines(story_text)
          IN /\ ~story.err
             /\ src = story_text
             /\ blocks = IF StoryTableFails(story) THEN <<>> ELSE StoryBlocks(story)
    /\ global_table = EmptyTable
    /\ block_index = 0
    /\ node_index = 0
    /\ block_state = NewBlock
    /\ final_edges = <<>>
    /\ build_status = "start"
    /\ EngineIdle

\* global_block_name_to_id = raw_story.block_name_to_id
block_name_to_id ==
    /\ build_status = "start"
    /\ ~StoryTableFails(clean_lines(src))
    /\ global_table' = story_block_name_to_id(clean_lines(src))
    /\ block_index' = 1
    /\ build_status' = "building"
    /\ UNCHANGED <<src, cond_vars, leaves, engine_vars, blocks, node_index, block_state, final_edges>>

\* the KeyError / IndexError of raw_story.block_name_to_id
block_name_to_id_raises ==
    /\ build_status = "start"
    /\ StoryTableFails(clean_lines(src))
    /\ build_status' = "error"
    /\ UNCHANGED <<src, cond_vars, leaves, engine_vars, blocks, global_table, block_index,
                   node_index, block_state, final_edges>>

\* inside the loop of parse_base_block, a node of the block left to walk
Walking ==
    /\ build_status = "building"
    /\ block_index \in 1..Len(blocks)
    /\ node_index < Len(blocks[block_index].nodes)

NextNode == blocks[block_index].nodes[node_index + 1]

\* the loop moves on, or the exception leaves parse_story
Advance(bs) ==
    /\ block_state' = bs
    /\ node_index' = node_index + 1
    /\ build_status' = IF bs.err THEN "error" ELSE "building"
    /\ UNCHANGED <<src, cond_vars, leaves, engine_vars, blocks, global_table, block_index, final_edges>>

WalkContent ==
    /\ Walking
    /\ NextNode.type \in {"BASE", "CHOICE"}
    /\ Advance(StepContent(block_state, NextNode))

WalkGather ==
    /\ Walking
    /\ NextNode.type = "GATHER"
    /\ Advance(StepGather(block_state, NextNode))

WalkDivert ==
    /\ Walking
    /\ NextNode.type = "DIVERT"
    /\ Advance(StepDivert(block_state, NextNode, blocks[block_index].local,
                          global_table))

\* parse_base_block returns: final_edges.extend(edges)
BlockEnd ==
    /\ build_status = "building"
    /\ block_index \in 1..Len(blocks)
    /\ node_index = Len(blocks[block_index].nodes)
    /\ final_edges' = final_edges \o block_state.edges
    /\ block_index' = block_index + 1
    /\ node_index' = 0
    /\ block_state' = NewBlock
    /\ UNCHANGED <<src, cond_vars, leaves, engine_vars, blocks, global_table, build_status>>

\* parse_story returns final_nodes, final_edges
ParseStoryReturns ==
    /\ build_status = "building"
    /\ block_index = Len(blocks) + 1
    /\ nodes' = Flatten([i \in 1..Len(blocks) |-> blocks[i].nodes])
                 \o <<end_node, begin_node, auto_end_node>>
    /\ edges' = final_edges
    /\ build_status' = "done"
    /\ UNCHANGED <<src, cond_vars, leaves, run_vars, blocks, global_table, block_index, node_index,
                   block_state, final_edges>>

NextGraph ==
    \/ block_name_to_id
    \/ block_name_to_id_raises
    \/ WalkContent
    \/ WalkGather
    \/ WalkDivert
    \/ BlockEnd
    \/ ParseStoryReturns

SpecGraph == InitGraph /\ [][NextGraph]_vars

\* ------------------------------------------------------------------------
\* Properties of the StoryEngine (checked under Spec)
\* ------------------------------------------------------------------------
\* the engine is stopped between two calls, the story not complete
Stopped == pc = "idle" /\ ~is_story_complete

\* C1: once make_choice has accepted a non-sticky choice c, c is never
\* again among get_available_choices(), whatever calls follow and also when
\* the story has looped back to the node c hangs from.
C1_NonStickyNeverReoffered ==
    \A c \in taken : ~NodeById(nodes, c).is_sticky => c \notin AvailableIds

\* C1 witness: a taken non-sticky choice is again a successor of the node
\* the engine stopped at, and other choices are on offer there.
C1_Witness ==
    \E c \in taken :
        /\ ~NodeById(nodes, c).is_sticky
        /\ Stopped
        /\ ret = "true"
        /\ c \in Range(successors(current_node_id))
        /\ AvailableIds # {}

\* C2: a sticky, non-fallback choice c that make_choice has accepted is
\* offered again whenever the engine is stopped at a node that has c as a
\* successor and c's condition holds, and c is never marked unavailable.
C2_StickyStaysOffered ==
    \A c \in taken :
        (/\ NodeById(nodes, c).is_sticky
         /\ ~NodeById(nodes, c).is_fallback)
        => /\ CanVisit(node_can_be_visited_again, c)
           /\ (/\ Stopped
               /\ c \in Range(successors(current_node_id))
               /\ evaluate_condition(NodeById(nodes, c).condition, container_states))
              => c \in AvailableIds

\* C2 witness: a taken sticky choice is offered again at the node the
\* story came back to.
C2_Witness ==
    \E c \in taken :
        /\ NodeById(nodes, c).is_sticky
        /\ ~NodeById(nodes, c).is_fallback
        /\ Stopped
        /\ ret = "true"
        /\ c \in Range(successors(current_node_id))
        /\ c \in AvailableIds

\* C3: a make_choice call made when the story is complete or with a node
\* that is not among get_available_choices() returns False, and leaves the
\* current node, the history, node_visited, node_can_be_visited_again, the
\* container states and the completion flag as they were.
C3_RejectedChoiceChangesNothing ==
    [][(/\ pc = "idle"
        /\ op' = "make_choice"
        /\ (is_story_complete \/ arg' \notin AvailableIds))
       => (/\ ret' = "false"
           /\ pc' = "idle"
           /\ UNCHANGED <<current_node_id, story_history, node_visited,
                          node_can_be_visited_again, container_states,
                          is_story_complete>>)]_vars

\* C3 witness: a choice taken before is passed again and is turned down
\* while other choices are on offer; the story has a history by then.
C3_Witness ==
    /\ op = "make_choice"
    /\ ret = "false"
    /\ pc = "idle"
    /\ arg \in taken
    /\ ~is_story_complete
    /\ AvailableIds # {}
    /\ story_history # <<>>

\* C4: within one call the advance loop never processes a node it has
\* already processed in that call (the visited set stops it), so that every
\* run of the loop ends, cycles of non-choice nodes included.
C4_LoopNeverReentersNode ==
    \A i, j \in 1..Len(path) : i # j => path[i] # path[j]

\* C5: after construction every node id in nodes has an outgoing edge or
\* is END (-1) or AUTO_END (-3).
C5_NoNodeWithoutSuccessor ==
    \A i \in 1..Len(nodes) :
        \/ nodes[i].id \in {END_ID, AUTO_END_ID}
        \/ nodes[i].id \in Sources(edges)

\* the targets of the edges that leave BEGIN
BeginTargets == {edges[i][2] : i \in {j \in 1..Len(edges) : edges[j][1] = BEGIN_ID}}

\* the non-sentinel nodes no edge of the parsed story leads to
NoIncoming ==
    (NodeIds(nodes) \ Sentinels)
    \ {edges[i][2] : i \in {j \in 1..Len(edges) : edges[j][1] # BEGIN_ID}}

\* C6: after construction and after every reset_story, BEGIN (-2) has
\* exactly one outgoing edge, and it leads to the non-sentinel node of
\* least id that has no incoming edge.
C6_BeginHasOneEdgeToStart ==
    (pc = "idle" /\ op \in {"init", "reset_story"} /\ NoIncoming # {})
    => BeginTargets = {Min(NoIncoming)}

\* ------------------------------------------------------------------------
\* Properties of the graph builder (checked under SpecGraph)
\* ------------------------------------------------------------------------
\* the nodes of the block being walked
BlockNodes == blocks[block_index].nodes

\* the node the loop has just dealt with
WalkedNode == BlockNodes[node_index]

\* the choices at the level of the gather about to be walked that come
\* before it in the block with no gather of that level or above in between
SiblingChoices ==
    {BlockNodes[j].id : j \in {k \in 1..node_index :
        /\ BlockNodes[k].type = "CHOICE"
        /\ BlockNodes[k].level = NextNode.level
        /\ \A m \in (k + 1)..node_index :
              ~(BlockNodes[m].type = "GATHER" /\ BlockNodes[m].level <= NextNode.level)}}

\* C7: when a gather at level L follows sibling choices at level L in a
\* block, each of them, or each leaf below it, gets an edge to the gather
\* (so the gather is reachable from the choice), and no edge is added from
\* the gather back to one of them; two choices and a gather alone give
\* exactly the two edges choice -> gather.
C7_GatherConverges ==
    [][(Walking /\ NextNode.type = "GATHER" /\ SiblingChoices # {})
       => /\ build_status' = "building"
          /\ \A c \in SiblingChoices :
                NextNode.id \in ReachFrom({c}, block_state'.edges)
          /\ \A i \in (Len(block_state.edges) + 1)..Len(block_state'.edges) :
                ~(/\ block_state'.edges[i][1] = NextNode.id
                  /\ block_state'.edges[i][2] \in SiblingChoices)
          /\ (/\ node_index = 2
              /\ BlockNodes[1].type = "CHOICE" /\ BlockNodes[2].type = "CHOICE"
              /\ BlockNodes[1].level = 1 /\ BlockNodes[2].level = 1
              /\ NextNode.level = 1)
             => block_state'.edges = <<<<BlockNodes[1].id, NextNode.id>>,
                                       <<BlockNodes[2].id, NextNode.id>>>>]_vars

\* C8: a divert named END that yields an edge yields an edge to node -1,
\* whatever the local and global name tables hold.
C8_DivertEndGoesToEnd ==
    [][(/\ Walking
        /\ NextNode.type = "DIVERT"
        /\ NextNode.name = "END"
        /\ build_status' = "building")
       => Last(block_state'.edges)[2] = END_ID]_vars

\* the first nodes of the stitches called name in the knot being walked
LocalStitchFirsts(name) ==
    {blocks[i].nodes[1].id : i \in {j \in 1..Len(blocks) :
        /\ blocks[j].knot = blocks[block_index].knot
        /\ blocks[j].knot # 0
        /\ blocks[j].stitch = name}}

\* the first nodes of the knots called name
KnotFirsts(name) ==
    {blocks[i].nodes[1].id : i \in {j \in 1..Len(blocks) :
        /\ blocks[j].knot_name = name
        /\ blocks[j].knot # 0
        /\ \A k \in 1..(j - 1) : blocks[k].knot # blocks[j].knot}}

\* C9: a divert whose name is both a stitch of the knot being walked and
\* a knot of the story gets its edge to the first node of the stitch, not to
\* the first node of the knot.
C9_LocalStitchShadowsKnot ==
    [][(/\ Walking
        /\ NextNode.type = "DIVERT"
        /\ LocalStitchFirsts(NextNode.name) # {}
        /\ KnotFirsts(NextNode.name) # {}
        /\ build_status' = "building")
       => Last(block_state'.edges)[2] \in LocalStitchFirsts(NextNode.name)]_vars

\* C9 witness: such a divert has been walked, the stitch and the knot of
\* its name start at different nodes, and the edge leads to the stitch.
C9_Witness ==
    /\ build_status = "building"
    /\ block_index \in 1..Len(blocks)
    /\ node_index >= 1
    /\ WalkedNode.type = "DIVERT"
    /\ LocalStitchFirsts(WalkedNode.name) # {}
    /\ KnotFirsts(WalkedNode.name) # {}
    /\ LocalStitchFirsts(WalkedNode.name) \cap KnotFirsts(WalkedNode.name) = {}
    /\ Last(block_state.edges)[2] \in LocalStitchFirsts(WalkedNode.name)

\* the name is in neither table nor reserved
Unresolved(name) ==
    /\ name \notin DOMAIN blocks[block_index].local
    /\ name \notin DOMAIN global_table
    /\ name \notin {"END", "BEGIN", "AUTO_END"}

\* C10: walking a divert whose name is in neither the local table, the
\* global table nor the reserved names ends graph building with an error,
\* and no nodes or edges are returned; this with a previous node at the
\* divert's level and without one.
C10_UnresolvedDivertAborts ==
    [][(Walking /\ NextNode.type = "DIVERT" /\ Unresolved(NextNode.name))
       => (build_status' = "error" /\ nodes' = <<>> /\ edges' = <<>>)]_vars

\* C10 witness: building has stopped with an error on an unresolved
\* divert that had a previous node at its level.
C10_Witness ==
    /\ build_status = "error"
    /\ block_index \in 1..Len(blocks)
    /\ node_index >= 1
    /\ WalkedNode.type = "DIVERT"
    /\ Unresolved(WalkedNode.name)
    /\ Len(block_state.nal[WalkedNode.level]) > 0
    /\ nodes = <<>>
    /\ edges = <<>>

\* ------------------------------------------------------------------------
\* Conditions and containers (checked under Spec)
\* ------------------------------------------------------------------------
\* the nodes of the knot or stitch that container key ref stands for
NodesOfContainer(ref) ==
    {nodes[i].id : i \in {j \in 1..Len(nodes) :
        /\ nodes[j].knot_name # HEADER
        /\ \/ nodes[j].knot_name = ref
           \/ /\ nodes[j].stitch_name # HEADER
              /\ Qual(nodes[j].knot_name, nodes[j].stitch_name) = ref}}

\* SEEN_COUNT_EQ(ref, 0) evaluated against the engine
NotSeen(ref, cs) == evaluate_condition(CondNot(ref), cs)

\* C11: for every knot or stitch ref the engine has a container for,
\* SEEN_COUNT_EQ(ref, 0) is true exactly while no node of ref has been
\* visited, and once it is false no later step makes it true again.
C11_NotSeenUntilVisited ==
    /\ [](\A ref \in DOMAIN container_states :
            NotSeen(ref, container_states)
               <=> NodesOfContainer(ref) \cap DOMAIN node_visited = {})
    /\ [][\A ref \in DOMAIN container_states :
            ~NotSeen(ref, container_states) => ~NotSeen(ref, container_states')]_vars

\* C11 witness: the story was in a knot, was reset, and is stopped again
\* outside of it: the condition is false for the knot while the node the
\* engine is on does not belong to it.
C11_Witness ==
    \E ref \in DOMAIN container_states :
        /\ ~NotSeen(ref, container_states)
        /\ NodesOfContainer(ref) \cap DOMAIN node_visited # {}
        /\ current_node_id \notin NodesOfContainer(ref)
        /\ pc = "idle"

\* ------------------------------------------------------------------------
\* Traversal of choices (checked under Spec)
\* ------------------------------------------------------------------------
\* a step that makes a node the current node: make_choice accepting it, or
\* the advance loop moving to it
Moves ==
    \/ (pc = "idle" /\ pc' = "follow" /\ op' = "make_choice")
    \/ (pc = "follow" /\ pc' = "follow" /\ path' # path)

\* choice c has been taken: by make_choice, or, when
\* let_people_choose_one_choice is false, by the advance loop
ChoiceTaken(c) ==
    \/ c \in taken
    \/ /\ ~let_people_choose_one_choice
       /\ \/ c \in DOMAIN node_visited
          \/ (pc = "follow" /\ current_node_id = c)

\* C12: no step makes a non-sticky choice the current node once it has
\* been taken, by make_choice or by the advance loop running with
\* let_people_choose_one_choice false.
C12_TakenChoiceNeverCurrentAgain ==
    [][Moves =>
         ~(/\ IsChoice(current_node_id')
           /\ ~NodeById(nodes, current_node_id').is_sticky
           /\ ChoiceTaken(current_node_id'))]_vars

\* ------------------------------------------------------------------------
\* reset_story (checked under Spec)
\* ------------------------------------------------------------------------
\* a step that is a call of reset_story
ResetStep == pc = "idle" /\ op' = "reset_story" /\ calls' = calls + 1

\* C13: reset_story empties the history, puts the current node on BEGIN
\* and clears the completion flag; node_visited, node_can_be_visited_again
\* and the container states are as before, and no non-sticky choice taken
\* before the reset is offered after it.
C13_ResetKeepsVisits ==
    [][ResetStep =>
         /\ story_history' = <<>>
         /\ current_node_id' = BEGIN_ID
         /\ is_story_complete' = FALSE
         /\ UNCHANGED <<node_visited, node_can_be_visited_again,
                        container_states>>
         /\ \A c \in taken :
               ~NodeById(nodes, c).is_sticky => c \notin AvailableIds']_vars

\* C13 witness: after a reset the engine is on BEGIN with an empty
\* history, visit counts are still there, and a non-sticky choice taken
\* before hangs from BEGIN without being offered.
C13_Witness ==
    /\ op = "reset_story"
    /\ pc = "idle"
    /\ story_history = <<>>
    /\ current_node_id = BEGIN_ID
    /\ ~is_story_complete
    /\ DOMAIN node_visited # {}
    /\ \E c \in taken :
          /\ ~NodeById(nodes, c).is_sticky
          /\ c \in Range(successors(BEGIN_ID))
          /\ ~CanVisit(node_can_be_visited_again, c)
          /\ c \notin AvailableIds

\* ------------------------------------------------------------------------
\* A choice with an inline divert (checked under Spec)
\* ------------------------------------------------------------------------
\* the id of the node made from source line ln
LineNode(ln) ==
    nodes[CHOOSE i \in 1..Len(nodes) : ln \in Range(nodes[i].src)].id

\* the call in progress or just returned is the accepted make_choice(c)
\* made as the second call, after start_story
ChoseAfterStart(c) ==
    /\ calls = 2
    /\ op = "make_choice"
    /\ arg = c
    /\ ret \in {"pending", "true", "raised"}

\* C14: for "Hello / * A -> a / * B -> b / == a == / Got A / == b == / Got B"
\* start_story adds "Hello" and returns with exactly the choices A and B on
\* offer; make_choice(A) then adds the bullet line of A and "Got A", ends
\* the story on AUTO_END within the call, and never visits knot b.
C14_InlineDivertContinuesAtKnot ==
    src = DivertStory =>
       LET hello == LineNode(1)
           A == LineNode(2)
           B == LineNode(3)
           gotA == LineNode(5)
           gotB == LineNode(7)
       IN /\ (calls = 1 /\ op = "start_story" /\ pc = "idle")
             => /\ story_history = <<Entry("content", hello)>>
                /\ get_available_choices = <<A, B>>
                /\ ~is_story_complete
          /\ ChoseAfterStart(A)
             => /\ ret # "raised"
                /\ pc = "follow" => Len(path) < 3
                /\ gotB \notin DOMAIN node_visited
                /\ current_node_id \notin {B, gotB}
                /\ container_states["b"].seen_count = 0
          /\ (ChoseAfterStart(A) /\ pc = "idle")
             => /\ story_history = <<Entry("content", hello), Entry("bullet", A),
                                    Entry("content", gotA),
                                    Entry("auto_end", AUTO_END_ID)>>
                /\ is_story_complete
                /\ current_node_id = AUTO_END_ID
                /\ path = <<A, gotA, AUTO_END_ID>>

\* C14 witness: make_choice(A) has returned True on that story.
C14_Witness ==
    /\ src = DivertStory
    /\ ChoseAfterStart(LineNode(2))
    /\ pc = "idle"
    /\ ret = "true"
    /\ LineNode(5) \in DOMAIN node_visited

\* ------------------------------------------------------------------------
\* A story without choices (checked under Spec)
\* ------------------------------------------------------------------------
\* the source is made of plain content lines only
PlainSource ==
    /\ Len(src) >= 1
    /\ \A i \in 1..Len(src) : src[i] = BaseLine(NoName)

\* the entries of the history that mark the end of the story; the
\* completion callback is called where such an entry is added
EndEntries ==
    {i \in 1..Len(story_history) : story_history[i].k \in {"end", "auto_end"}}

\* C15: for a source of plain content lines only, start_story adds the
\* content, ends the story on AUTO_END within the call and reports the end
\* once, and get_available_choices() is empty before and after it.
C15_PlainStoryCompletesAtOnce ==
    PlainSource =>
       /\ get_available_choices = <<>>
       /\ (calls = 1 /\ op = "start_story")
          => /\ ret # "raised"
             /\ pc = "follow" => Len(path) < 3
       /\ (calls = 1 /\ op = "start_story" /\ pc = "idle")
          => /\ story_history = <<Entry("content", LineNode(1)),
                                 Entry("auto_end", AUTO_END_ID)>>
             /\ Cardinality(EndEntries) = 1
             /\ is_story_complete
             /\ current_node_id = AUTO_END_ID

\* C15 witness: start_story has returned on a story of several plain
\* lines.
C15_Witness ==
    /\ PlainSource
    /\ Len(src) > 1
    /\ calls = 1
    /\ op = "start_story"
    /\ pc = "idle"
    /\ is_story_complete

\* ------------------------------------------------------------------------
\* The choices on offer (checked under Spec)
\* ------------------------------------------------------------------------
\* the choice successors of the current node that are sticky or were
\* never visited
OpenChoices ==
    {c \in Range(successors(current_node_id)) :
        /\ IsChoice(c)
        /\ \/ NodeById(nodes, c).is_sticky
           \/ c \notin DOMAIN node_visited}

\* those that are not fallbacks and whose condition holds
RegularChoices ==
    {c \in OpenChoices :
        /\ ~NodeById(nodes, c).is_fallback
        /\ evaluate_condition(NodeById(nodes, c).condition, container_states)}

FallbackChoices == {c \in OpenChoices : NodeById(nodes, c).is_fallback}

\* C16: every node of get_available_choices() is a choice successor of
\* the current node, sticky or never visited, and a fallback or with a true
\* condition; fallbacks are returned only when there is no regular choice
\* of that kind; the result is empty once the story is complete.
C16_OfferedChoicesAreOpen ==
    /\ AvailableIds \subseteq RegularChoices \cup FallbackChoices
    /\ AvailableIds \cap FallbackChoices # {} => RegularChoices = {}
    /\ is_story_complete => get_available_choices = <<>>

\* C16 witness: a fallback is on offer at a node whose regular choice has
\* been taken.
C16_Witness ==
    /\ Stopped
    /\ AvailableIds \cap FallbackChoices # {}
    /\ \E c \in taken :
          /\ c \in Range(successors(current_node_id))
          /\ ~NodeById(nodes, c).is_fallback

\* ------------------------------------------------------------------------
\* The history written by make_choice (checked under Spec)
\* ------------------------------------------------------------------------
\* s is a prefix of u
IsPrefix(s, u) == Len(s) <= Len(u) /\ SubSeq(u, 1, Len(s)) = s

\* C17: an accepted make_choice(c) only appends to the history: first the
\* bullet line of c's choice_text if that is non-empty, then c's content
\* if it is non-blank and differs from the choice_text, then what the
\* advance loop adds; the entries that were there stay as they are.
C17_ChoiceAppendsToHistory ==
    [][/\ (pc = "idle" /\ pc' = "follow" /\ op' = "make_choice")
          => LET c == NodeById(nodes, arg')
                 bullet == IF c.choice_text \in {"blank", "text"}
                           THEN <<Entry("bullet", c.id)>> ELSE <<>>
                 content == IF c.content = "text" /\ ~c.same
                            THEN <<Entry("content", c.id)>> ELSE <<>>
             IN story_history' = story_history \o bullet \o content
       /\ (pc = "follow" /\ op = "make_choice")
          => /\ IsPrefix(story_history, story_history')
             /\ \A i \in (Len(story_history) + 1)..Len(story_history') :
                   story_history'[i].k # "bullet"]_vars

\* C17 witness: make_choice has returned True for a choice whose content
\* differs from its choice_text; the history holds its bullet line, then
\* its content, then what the advance loop added.
C17_Witness ==
    /\ op = "make_choice"
    /\ ret = "true"
    /\ pc = "idle"
    /\ \E i \in 1..Len(story_history) :
          /\ story_history[i] = Entry("bullet", arg)
          /\ i + 1 < Len(story_history)
          /\ story_history[i + 1] = Entry("content", arg)

\* ------------------------------------------------------------------------
\* The AUTO_END edges (checked under Spec)
\* ------------------------------------------------------------------------
\* the edge list _fill_auto_end_node is given: the parsed edges and the
\* edge of BEGIN
EdgesBeforeFill ==
    LET parsed == parse_story(clean_lines(src))
    IN find_start_edges(parsed.nodes, parsed.edges)

\* the ids of the nodes that are not sentinels
StoryNodeIds == NodeIds(nodes) \ Sentinels

MaxValue == 1       \* largest count, number or string rank in a condition

\* a Python value: an int, or a str given by its rank in string order
IntVal(n) == [ty |-> "int", n |-> n]
StrVal(n) == [ty |-> "str", n |-> n]
Values == {IntVal(n) : n \in 0..MaxValue} \cup {StrVal(n) : n \in 0..MaxValue}

\* UnaryCondition: condition_type, container_reference and expected_value,
\* the latter a status (st), a count (v) or {"variable": var, "value": val}
UnaryCondition(type, ref, v, st, var, val) ==
    [t |-> type, ref |-> ref, v |-> v, st |-> st, var |-> var, val |-> val]

SeenCountTypes == {"seen_count_gt", "seen_count_lt", "seen_count_eq"}
VariableTypes == {"variable_eq", "variable_gt", "variable_lt"}

ContainerNames == {"a", "b"}
VariableNames == {"x", "y"}
Statuses == {"not_clicked", "seen"}

\* the conditions the validator accepts, over the names above
Conditions ==
    {UnaryCondition("status_equals", r, 0, s, NoName, IntVal(0)) :
        r \in ContainerNames, s \in Statuses}
    \cup {UnaryCondition(ty, r, n, "none", NoName, IntVal(0)) :
        ty \in SeenCountTypes, r \in ContainerNames, n \in 0..MaxValue}
    \cup {UnaryCondition(ty, NoName, 0, "none", x, w) :
        ty \in VariableTypes, x \in VariableNames, w \in Values}
    \cup {UnaryCondition("turn_gt", NoName, n, "none", NoName, IntVal(0)) :
        n \in 0..MaxValue}

\* what a provider can hold: container "b" and variable "y" are unknown
ProviderContainers ==
    UNION {[S -> [status : Statuses, seen_count : 0..MaxValue,
                  last_seen_turn : {-1}]] : S \in SUBSET {"a"}}
ProviderVariables == UNION {[S -> Values] : S \in SUBSET {"x"}}

Bool(b) == IF b THEN "true" ELSE "false"

\* Python's a > b: TypeError between an int and a str
Greater(a, b) == IF a.ty # b.ty THEN "raised" ELSE Bool(a.n > b.n)

\* UnaryCondition.evaluate: "true", "false", or "raised"
evaluate(c, cs, gv) ==
    CASE c.t = "status_equals" ->
           IF c.ref \notin DOMAIN cs THEN "false"
           ELSE Bool(cs[c.ref].status = c.st)
      [] c.t \in SeenCountTypes ->
           Bool(evaluate_condition([t |-> c.t, ref |-> c.ref, v |-> c.v], cs))
      [] c.t = "variable_eq" ->
           IF c.var \notin DOMAIN gv THEN "false"
           ELSE Bool(gv[c.var] = c.val)
      [] c.t = "variable_gt" ->
           Greater(IF c.var \in DOMAIN gv THEN gv[c.var] ELSE IntVal(0), c.val)
      [] c.t = "variable_lt" ->
           Greater(c.val, IF c.var \in DOMAIN gv THEN gv[c.var] ELSE IntVal(0))
      [] c.t = "turn_gt" -> Bool(current_turn > c.v)
      [] OTHER -> "false"

\* a condition and a provider, nothing evaluated yet
InitCond ==
    /\ condition \in Conditions
    /\ container_states \in ProviderContainers
    /\ game_variables \in ProviderVariables
    /\ leaves = <<>>
    /\ src = <<>>
    /\ let_people_choose_one_choice = TRUE
    /\ nodes = <<>>
    /\ edges = <<>>
    /\ graph = <<>>
    /\ current_node_id = BEGIN_ID
    /\ story_history = <<>>
    /\ is_story_complete = FALSE
    /\ node_visited = EmptyTable
    /\ node_can_be_visited_again = [id \in {} |-> TRUE]
    /\ pc = "idle"
    /\ op = "none"
    /\ arg = 0
    /\ ret = "none"
    /\ path = <<>>
    /\ taken = {}
    /\ calls = 0
    /\ BuilderIdle

\* condition.evaluate(provider)
Evaluate ==
    /\ op = "none"
    /\ op' = "evaluate"
    /\ ret' = evaluate(condition, container_states, game_variables)
    /\ UNCHANGED <<src, cond_vars, leaves, let_people_choose_one_choice, nodes, edges,
                   graph, current_node_id, story_history, is_story_complete,
                   node_visited, node_can_be_visited_again, container_states,
                   pc, arg, path, taken, calls, builder_vars>>

NextCond == Evaluate

SpecCond == InitCond /\ [][NextCond]_vars

\* the condition names a container or a variable the provider lacks
UnknownContainer ==
    /\ condition.t \in {"status_equals"} \cup SeenCountTypes
    /\ condition.ref \notin DOMAIN container_states

MissingVariable ==
    /\ condition.t \in VariableTypes
    /\ condition.var \notin DOMAIN game_variables

\* C19: evaluating a condition on an unknown reference does not raise:
\* STATUS_EQUALS and SEEN_COUNT_GT/LT/EQ on an unknown container give
\* False, VARIABLE_GT/LT take a missing variable as 0, VARIABLE_EQ on a
\* missing variable gives False.
C19_UnknownReferenceNeverRaises ==
    op = "evaluate" =>
       /\ (UnknownContainer \/ MissingVariable) => ret # "raised"
       /\ UnknownContainer => ret = "false"
       /\ (MissingVariable /\ condition.t = "variable_eq") => ret = "false"
       /\ (MissingVariable /\ condition.t = "variable_gt"
             /\ condition.val.ty = "int")
          => ret = Bool(0 > condition.val.n)
       /\ (MissingVariable /\ condition.t = "variable_lt"
             /\ condition.val.ty = "int")
          => ret = Bool(0 < condition.val.n)

\* ------------------------------------------------------------------------
\* Dead ends (checked under Spec)
\* ------------------------------------------------------------------------
\* C20: whatever story the graph was built from and whatever start_story,
\* accepted make_choice and reset_story calls were made, the advance loop
\* is never on a node that has no successor it may go to and is neither
\* END nor AUTO_END, so that the NotImplementedError of the loop is never
\* raised.
C20_NoDeadEnd ==
    /\ ret # "raised"
    /\ pc = "follow"
       => \/ NextNodeIds # <<>>
          \/ NodeById(nodes, current_node_id).type \in {"END", "AUTO_END"}

\* ------------------------------------------------------------------------
\* Gathers and diverts in a block (checked under SpecGraph)
\* ------------------------------------------------------------------------
\* the divert about to be walked directly follows a gather of its level:
\* the divert cut off the gather's own line, or a divert line after it
DivertFollowsGather ==
    /\ Walking
    /\ NextNode.type = "DIVERT"
    /\ node_index >= 1
    /\ WalkedNode.type = "GATHER"
    /\ WalkedNode.level = NextNode.level
    /\ Resolvable(NextNode.name, blocks[block_index].local, global_table)

\* C21: a divert that directly follows a gather, inline on the gather line
\* or on the next line at the carried-over level, yields an edge from the
\* gather to the divert's resolved target, and graph building goes on.
C21_DivertAfterGatherLinks ==
    [][DivertFollowsGather
       => /\ build_status' = "building"
          /\ <<WalkedNode.id,
               Resolve(NextNode.name, blocks[block_index].local, global_table)>>
                \in Range(block_state'.edges)]_vars

\* ------------------------------------------------------------------------
\* The advance loop and choice nodes (checked under Spec)
\* ------------------------------------------------------------------------
\* an iteration of the loop of _follow_story_path that goes on to a next
\* node
LoopAdvances == pc = "follow" /\ pc' = "follow" /\ path' # path

\* C22: with let_people_choose_one_choice true the advance loop never
\* makes a choice node the current node; only an accepted make_choice
\* does, and a choice withheld because its condition is false is not
\* stepped onto either.
C22_LoopNeverStepsOntoChoice ==
    [][(let_people_choose_one_choice /\ LoopAdvances)
       => ~IsChoice(current_node_id')]_vars

\* ------------------------------------------------------------------------
\* The edges a gather collects (checked under SpecGraph)
\* ------------------------------------------------------------------------
\* the positions in block_state'.edges of the edges the step has added
NewEdgeIdx == (Len(block_state.edges) + 1)..Len(block_state'.edges)

\* C23: every edge the GATHER branch adds into the gather comes from a
\* node of the gather's own block; the first node of a knot or stitch that
\* a choice branch diverts to gets no edge to the gather closing the
\* branch.
C23_GatherEdgesStayInBlock ==
    [][(Walking /\ NextNode.type = "GATHER")
       => \A i \in NewEdgeIdx :
             block_state'.edges[i][1] \in NodeIds(BlockNodes)]_vars

\* the edges produced so far: those of the finished blocks and those of
\* the block being walked
EdgesSoFar == final_edges \o block_state.edges

\* C24: no edge produced by the graph builder has equal source and target;
\* in particular a gather never gets an edge to itself, also when two
\* sibling choices divert to the same target before the gather.
C24_NoSelfLoop ==
    \A i \in 1..Len(EdgesSoFar) : EdgesSoFar[i][1] # EdgesSoFar[i][2]

\* ------------------------------------------------------------------------
\* LineMerger and sticky choices (checked under Spec)
\* ------------------------------------------------------------------------
\* node n is a choice merged from a sticky choice line ("+ ...") and the
\* plain lines after it
MergedStickyChoice(n) ==
    /\ n.type = "CHOICE"
    /\ Len(n.src) > 1
    /\ src[n.src[1]].k = "CHOICE"
    /\ src[n.src[1]].st

\* C25: a sticky choice that LineMerger has merged with a continuation
\* line is still sticky, and is never marked as used up, so it stays
\* selectable after it has been taken.
C25_MergeKeepsSticky ==
    \A i \in 1..Len(nodes) :
        MergedStickyChoice(nodes[i])
        => /\ nodes[i].is_sticky
           /\ CanVisit(node_can_be_visited_again, nodes[i].id)

\* ------------------------------------------------------------------------
\* find_leaves_from_node on its own (specification SpecLeaves)
\* ------------------------------------------------------------------------
MaxNode == 3
MaxEdges == 3

\* the ids the edges are made of, and one more that the start may take
LeafNodes == 1..MaxNode
EdgeLists == SeqsUpTo(LeafNodes \X LeafNodes, MaxEdges)
StartNodes == 1..(MaxNode + 1)

\* a start node and a partial edge list, nothing computed yet
InitLeaves ==
    /\ edges \in EdgeLists
    /\ arg \in StartNodes
    /\ leaves = <<>>
    /\ op = "none"
    /\ ret = "none"
    /\ src = <<>>
    /\ let_people_choose_one_choice = TRUE
    /\ nodes = <<>>
    /\ graph = <<>>
    /\ container_states = <<>>
    /\ current_node_id = BEGIN_ID
    /\ story_history = <<>>
    /\ is_story_complete = FALSE
    /\ node_visited = EmptyTable
    /\ node_can_be_visited_again = [id \in {} |-> TRUE]
    /\ pc = "idle"
    /\ path = <<>>
    /\ taken = {}
    /\ calls = 0
    /\ game_variables = EmptyTable
    /\ condition = NoCond
    /\ BuilderIdle

\* leaves = find_leaves_from_node(start_node_id, edges)
FindLeaves ==
    /\ op = "none"
    /\ op' = "find_leaves_from_node"
    /\ leaves' = find_leaves_from_node(arg, edges)
    /\ ret' = "returned"
    /\ UNCHANGED <<src, cond_vars, let_people_choose_one_choice, nodes, edges,
                   graph, current_node_id, story_history, is_story_complete,
                   node_visited, node_can_be_visited_again, container_states,
                   pc, arg, path, taken, calls, builder_vars>>

NextLeaves == FindLeaves

SpecLeaves == InitLeaves /\ [][NextLeaves]_vars

\* the nodes that a walk of at most k edges from s ends on
RECURSIVE WithinSteps(_, _, _)
WithinSteps(s, es, k) ==
    IF k = 0 THEN {s}
    ELSE LET near == WithinSteps(s, es, k - 1)
         IN near \cup {es[i][2] : i \in {j \in 1..Len(es) : es[j][1] \in near}}

\* the nodes reachable from s, s included
Reachable(s, es) == WithinSteps(s, es, Len(es))

HasSuccessor(n, es) == \E i \in 1..Len(es) : es[i][1] = n

\* C26: find_leaves_from_node(start, edges) returns exactly the nodes
\* reachable from start, start included, that have no outgoing edge, each
\* once; it returns [start] when start is in no edge; and on a graph with
\* cycles or self-loops it returns, with no leaf when every reachable
\* node has a successor.
C26_LeavesAreReachableSinks ==
    op = "find_leaves_from_node"
    => /\ ret = "returned"
       /\ Range(leaves) = {n \in Reachable(arg, edges) : ~HasSuccessor(n, edges)}
       /\ Len(leaves) = Cardinality(Range(leaves))
       /\ arg \notin GraphNodes(edges) => leaves = <<arg>>
       /\ (\A n \in Reachable(arg, edges) : HasSuccessor(n, edges))
             => leaves = <<>>

\* C26 witness: the call has returned no leaf for a start node of a graph
\* in which a node has a self-loop and two nodes lie on a cycle.
C26_Witness ==
    /\ op = "find_leaves_from_node"
    /\ leaves = <<>>
    /\ arg \in GraphNodes(edges)
    /\ \E n \in LeafNodes : <<n, n>> \in Range(edges)
    /\ \E n, m \in LeafNodes :
          n # m /\ <<n, m>> \in Range(edges) /\ <<m, n>> \in Range(edges)

\* ------------------------------------------------------------------------
\* The record of a gather (checked under SpecGraph)
\* ------------------------------------------------------------------------
\* C27: walking a gather of level L leaves the record of level L empty and
\* the gather as the last entry of the record of level L - 1, whatever
\* came before it in the block, also when the record of level L - 1 exists
\* and is empty; a choice or plain line of level L walked right after the
\* gather gets its incoming edge from the gather.
C27_GatherTakesParentSlot ==
    [][/\ (Walking /\ NextNode.type = "GATHER")
          => /\ build_status' = "building"
             /\ block_state'.nal[NextNode.level] = <<>>
             /\ Last(block_state'.nal[NextNode.level - 1]) = NextNode.id
       /\ (/\ Walking
           /\ NextNode.type \in {"CHOICE", "BASE"}
           /\ node_index >= 1
           /\ WalkedNode.type = "GATHER"
           /\ WalkedNode.level = NextNode.level)
          => Last(block_state'.edges) = <<WalkedNode.id, NextNode.id>>]_vars

\* ------------------------------------------------------------------------
\* The tree builder (checked under SpecGraph)
\* ------------------------------------------------------------------------
\* source line i comes after a knot header with no stitch header in
\* between
InKnotHeader(i) ==
    \E j \in 1..(i - 1) :
        /\ src[j].k = "KNOT"
        /\ \A m \in (j + 1)..(i - 1) : src[m].k \notin {"KNOT", "STITCHES"}

\* C28: a knot header resets the stitch cursor: every content line between
\* a knot header and the first stitch header of that knot is filed in the
\* header block of a knot, also when a stitch header came in the story
\* header before the first knot.
C28_KnotResetsStitchCursor ==
    \A b \in 1..Len(blocks) :
        \A k \in 1..Len(blocks[b].nodes) :
            LET n == blocks[b].nodes[k]
            IN (n.src # <<>> /\ InKnotHeader(n.src[1]))
               => /\ blocks[b].knot # 0
                  /\ blocks[b].stitch = NoName

\* ------------------------------------------------------------------------
\* Where the engine comes to rest (checked under Spec)
\* ------------------------------------------------------------------------
\* start_story or an accepted make_choice has returned without raising
ReturnedNormally ==
    /\ pc = "idle"
    /\ \/ (op = "start_story" /\ ret = "none")
       \/ (op = "make_choice" /\ ret = "true")

\* C29: when start_story or an accepted make_choice has returned
\* normally, either the story is complete and the current node is END or
\* AUTO_END, or get_available_choices() is not empty.
C29_RestsOnEndOrChoices ==
    ReturnedNormally
    => \/ /\ is_story_complete
          /\ NodeById(nodes, current_node_id).type \in {"END", "AUTO_END"}
       \/ get_available_choices # <<>>

\* C29 witness: an accepted make_choice has returned with the story not
\* complete and with choices on offer.
C29_Witness ==
    /\ ReturnedNormally
    /\ op = "make_choice"
    /\ ~is_story_complete
    /\ get_available_choices # <<>>

\* ------------------------------------------------------------------------
\* Container counts (checked under Spec)
\* ------------------------------------------------------------------------
\* node_visited.get(id, 0)
VisitCount(id) == IF id \in DOMAIN node_visited THEN node_visited[id] ELSE 0

\* the sum of node_visited over the first i nodes tagged with knot k
RECURSIVE KnotVisits(_, _)
KnotVisits(k, i) ==
    IF i = 0 THEN 0
    ELSE KnotVisits(k, i - 1)
         + (IF nodes[i].knot_name = k THEN VisitCount(nodes[i].id) ELSE 0)

\* the nodes lying in a stitch of a knot
StitchNodes ==
    {i \in 1..Len(nodes) :
        nodes[i].knot_name # HEADER /\ nodes[i].stitch_name # HEADER}

\* C30: in every reachable state the seen_count of each knot is the sum of
\* node_visited over the nodes tagged with the knot, the seen_count of
\* each stitch is at most that of its knot, and the status of a container
\* is seen exactly when its seen_count is greater than 0.
C30_SeenCountsMatchVisits ==
    /\ \A k \in KnotKeys(nodes) :
          container_states[k].seen_count = KnotVisits(k, Len(nodes))
    /\ \A i \in StitchNodes :
          container_states[Qual(nodes[i].knot_name, nodes[i].stitch_name)].seen_count
             <= container_states[nodes[i].knot_name].seen_count
    /\ \A key \in DOMAIN container_states :
          container_states[key].status = "seen"
             <=> container_states[key].seen_count > 0
====
